---- MODULE Spec2Model ----
(***************************************************************************)
(* Model of emotion_analyzer/media_utils.py: the image helpers             *)
(* convert_to_rgb, load_image_path, get_facial_ROI, draw_emoji,            *)
(* annotate_warning and annotate_emotion_stats, acting on numpy buffers    *)
(* held by a caller.                                                       *)
(*                                                                         *)
(* A numpy array is a record [shape, seed, alpha, layers]: its contents    *)
(* are the pattern BasePix(seed, alpha) overwritten, in order, by the      *)
(* writes recorded in layers.  Pix(a, r, c, k) is the value of a[r, c, k]. *)
(* Python's None is the buffer id 0 (for an image) or the empty tuple      *)
(* (for a bounding box).                                                   *)
(***************************************************************************)
EXTENDS Integers, Sequences, FiniteSets, TLC

VARIABLES
    heap,          \* the buffers the caller can reach: heap[1] the argument of
                   \* the last call, then the buffers that call allocated
    img,           \* the image the caller holds: an index of heap, or None
    emoji,         \* the emoji picture the caller holds (never written)
    emotion_data,  \* ordered mapping label -> confidence, as a sequence
    fpDown,        \* whether float64 rounding falls below an exact integer
    pre,           \* heap as it was when the last call started
    outcome,       \* what the last call did: op, status, error, ret, argv
    calls          \* number of calls made so far

vars == <<heap, img, emoji, emotion_data, fpDown, pre, outcome, calls>>

(***************************************************************************)
(* Bounds of the model.                                                    *)
(***************************************************************************)
MaxCalls == 2      \* calls the caller makes in a row
MaxDim == 2        \* height and width of the small images of Spec
MaxSeed == 2       \* number of distinct emoji pixel patterns
MaxEntries == 2    \* entries of emotion_data

(***************************************************************************)
(* Program constants.                                                      *)
(***************************************************************************)
EmojiRowLo == 350
EmojiRowHi == 470
EmojiColLo == 10
EmojiColHi == 130
AlphaChannel == 3
AlphaMax == 255
BarX == 100
RowPitch == 20
BarTop == 20
BarBottom == 18
LabelX == 10
ConfTextX == 105
WarnX == 150
WarnYFromBottom == 100
WarnSecondLine == 31
WarningFontSize == 20
AnnotationFontSize == 16
SecondLineChars == 48

None == 0
NoneBox == << >>

Max(a, b) == IF a > b THEN a ELSE b
Min(a, b) == IF a < b THEN a ELSE b

(***************************************************************************)
(* numpy arrays.                                                           *)
(***************************************************************************)
Array(shape, seed, alpha) ==
    [shape |-> shape, seed |-> seed, alpha |-> alpha, layers |-> << >>]

Size(a) == a.shape[1] * a.shape[2] * a.shape[3]

AlphaAt(mode, r, c) ==
    CASE mode = "opaque" -> AlphaMax
      [] mode = "clear"  -> 0
      [] mode = "half"   -> 128
      [] OTHER           -> CASE (r + c) % 3 = 0 -> 0
                              [] (r + c) % 3 = 1 -> 128
                              [] OTHER           -> AlphaMax

BasePix(a, r, c, k) ==
    IF k = AlphaChannel THEN AlphaAt(a.alpha, r, c)
    ELSE (37 * a.seed + 7 * r + 3 * c + 101 * k) % 256

\* Python's slice start:stop on an axis of length n: negative indices count
\* from the end, and both ends are clamped into 0..n.
SliceIndex(i, n) ==
    IF i < 0 THEN Max(i + n, 0) ELSE Min(i, n)

SliceLo(start, stop, n) == SliceIndex(start, n)
SliceLen(start, stop, n) == Max(SliceIndex(stop, n) - SliceIndex(start, n), 0)

\* numpy broadcasting of two axis lengths: equal, or one of them is 1.
BroadcastOK(m, n) == m = n \/ m = 1 \/ n = 1
BroadcastDim(m, n) == IF m = 1 THEN n ELSE m

\* index into an axis of length n that was broadcast
BIdx(i, n) == IF n = 1 THEN 0 ELSE i

\* the weights of foreground and background exchanged
Blend_weights_swapped(e, b, a, down) ==
    LET num == e * (AlphaMax - a) + b * a
        q   == num \div AlphaMax
    IN  IF a = 0 THEN e
        ELSE IF a = AlphaMax THEN b
        ELSE IF num % AlphaMax = 0 /\ q > 0 /\ down THEN q - 1
        ELSE q

\* uint8(e * (a / 255.0) + b * (1.0 - a / 255.0)): the float64 sum is exact when
\* a is 0 or 255; otherwise, where the exact value is a positive integer q, the
\* rounded sum is q or just below q, and the cast to uint8 truncates.
Blend(e, b, a, down) ==
    LET num == e * a + b * (AlphaMax - a)
        q   == num \div AlphaMax
    IN  IF a = 0 THEN b
        ELSE IF a = AlphaMax THEN e
        ELSE IF num % AlphaMax = 0 /\ q > 0 /\ down THEN q - 1
        ELSE q

\* the pixels PIL inks for a text of n characters drawn at (x, y) in a font of
\* the given size: a raster inside the text's box
TextInk(l, r, c) ==
    /\ r >= l.y /\ r < l.y + l.size
    /\ c >= l.x /\ c < l.x + l.chars * (l.size \div 2)
    /\ ((r - l.y) + (c - l.x)) % 2 = 0

InRect(l, r, c) ==
    /\ r >= l.y1 /\ r <= l.y2
    /\ c >= l.x1 /\ c <= l.x2

InRegion(l, r, c) ==
    /\ r >= l.y0 /\ r < l.y0 + l.h
    /\ c >= l.x0 /\ c < l.x0 + l.w

RECURSIVE PixAt(_, _, _, _, _)
PixAt(a, n, r, c, k) ==
    IF n = 0 THEN BasePix(a, r, c, k)
    ELSE LET l == a.layers[n] IN
        CASE l.kind = "swap" ->
                PixAt(a, n - 1, r, c, IF k <= 2 THEN 2 - k ELSE k)
          [] l.kind = "rect" ->
                IF InRect(l, r, c) THEN l.color[k + 1]
                ELSE PixAt(a, n - 1, r, c, k)
          [] l.kind = "text" ->
                IF TextInk(l, r, c) THEN l.color[k + 1]
                ELSE PixAt(a, n - 1, r, c, k)
          [] OTHER ->
                IF l.ch = k /\ InRegion(l, r, c)
                THEN LET er == BIdx(r - l.y0, l.emoji.shape[1])
                         ec == BIdx(c - l.x0, l.emoji.shape[2])
                     IN  Blend(BasePix(l.emoji, er, ec, k),
                               PixAt(a, n - 1, r, c, k),
                               BasePix(l.emoji, er, ec, AlphaChannel),
                               l.down)
                ELSE PixAt(a, n - 1, r, c, k)

Pix(a, r, c, k) == PixAt(a, Len(a.layers), r, c, k)

Rows(a) == 0 .. a.shape[1] - 1
Cols(a) == 0 .. a.shape[2] - 1
Chans(a) == 0 .. a.shape[3] - 1

SamePixels(a, b) ==
    /\ a.shape = b.shape
    /\ \A r \in Rows(a), c \in Cols(a), k \in Chans(a) : Pix(a, r, c, k) = Pix(b, r, c, k)

(***************************************************************************)
(* Results of a call.                                                      *)
(***************************************************************************)
RetNone == [kind |-> "none", id |-> 0, y0 |-> 0, x0 |-> 0, shape |-> <<0, 0, 0>>]
RetArray(id) == [kind |-> "array", id |-> id, y0 |-> 0, x0 |-> 0, shape |-> <<0, 0, 0>>]
RetView(id, y0, x0, shape) ==
    [kind |-> "view", id |-> id, y0 |-> y0, x0 |-> x0, shape |-> shape]

\* the function returned ret, leaving the buffers as mem
Return(ret, mem) ==
    [status |-> "ok", error |-> "", ret |-> ret, mem |-> mem, reads |-> 0]
\* the function raised error, leaving the buffers as mem
Raise(error, mem) ==
    [status |-> "raise", error |-> error, ret |-> RetNone, mem |-> mem, reads |-> 0]

(***************************************************************************)
(* Format conversion.                                                      *)
(***************************************************************************)
\* emotion_analyzer.validators.is_valid_img: the image is neither None nor empty
is_valid_img(mem, image) ==
    /\ image # None
    /\ Size(mem[image]) > 0

\* cv2.cvtColor(image, cv2.COLOR_BGR2RGB): a new array with channels 0 and 2
\* exchanged
cvtColor_unconverted(a) == a

cvtColor(a) ==
    [a EXCEPT !.layers = Append(@, [kind |-> "swap"])]

convert_to_rgb(mem, image) ==
    IF ~is_valid_img(mem, image)
    THEN Raise("InvalidImage", mem)
    ELSE Return(RetArray(Len(mem) + 1), Append(mem, cvtColor(mem[image])))

(***************************************************************************)
(* Loading.                                                                *)
(***************************************************************************)
\* the files on disk that decode to an image
Disk ==
    [p \in {"face.jpg", "tiny.png"} |->
        IF p = "face.jpg" THEN Array(<<MaxDim, MaxDim, 3>>, 1, "opaque")
        ELSE Array(<<1, 2, 3>>, 2, "opaque")]

\* paths a caller may pass; "<not a str>" stands for an argument that is no path
Paths == {"face.jpg", "tiny.png", "missing.jpg", "corrupt.jpg", "<not a str>"}
Modes == {"rgb", "bgr"}

\* cv2.imread: raises on an argument that is no path, returns None for a file
\* that is missing or does not decode, and the decoded array otherwise
imread(path) ==
    CASE path = "<not a str>" ->
            [raised |-> TRUE, error |-> "TypeError", found |-> FALSE]
      [] path \in DOMAIN Disk ->
            [raised |-> FALSE, error |-> "", found |-> TRUE]
      [] OTHER ->
            [raised |-> FALSE, error |-> "", found |-> FALSE]

load_image_path(mem, img_path, mode) ==
    LET rd   == imread(img_path)
        mem1 == IF rd.found THEN Append(mem, Disk[img_path]) ELSE mem
        im   == IF rd.found THEN Len(mem1) ELSE None
        res  == IF rd.raised THEN Raise(rd.error, mem)
                ELSE IF mode = "rgb" THEN convert_to_rgb(mem1, im)
                ELSE Return(IF im = None THEN RetNone ELSE RetArray(im), mem1)
    IN  [res EXCEPT !.reads = 1]

(***************************************************************************)
(* Region extraction.                                                      *)
(***************************************************************************)
\* the two error kinds exchanged
get_facial_ROI_errors_swapped(mem, image, bbox) ==
    IF image = None \/ bbox = NoneBox
    THEN Raise(IF image = None THEN "ValueError" ELSE "InvalidImage", mem)
    ELSE LET a == mem[image]
         IN  Return(RetView(image,
                            SliceLo(bbox[2], bbox[4], a.shape[1]),
                            SliceLo(bbox[1], bbox[3], a.shape[2]),
                            <<SliceLen(bbox[2], bbox[4], a.shape[1]),
                              SliceLen(bbox[1], bbox[3], a.shape[2]),
                              a.shape[3]>>),
                    mem)

\* rows sliced by the x coordinates and columns by the y coordinates
get_facial_ROI_axes_swapped(mem, image, bbox) ==
    IF image = None \/ bbox = NoneBox
    THEN Raise(IF image = None THEN "InvalidImage" ELSE "ValueError", mem)
    ELSE LET a == mem[image]
         IN  Return(RetView(image,
                            SliceLo(bbox[1], bbox[3], a.shape[1]),
                            SliceLo(bbox[2], bbox[4], a.shape[2]),
                            <<SliceLen(bbox[1], bbox[3], a.shape[1]),
                              SliceLen(bbox[2], bbox[4], a.shape[2]),
                              a.shape[3]>>),
                    mem)

get_facial_ROI(mem, image, bbox) ==
    IF image = None \/ bbox = NoneBox
    THEN Raise(IF image = None THEN "InvalidImage" ELSE "ValueError", mem)
    ELSE LET a == mem[image]
             H == a.shape[1]
             W == a.shape[2]
         IN  Return(RetView(image,
                            SliceLo(bbox[2], bbox[4], H),
                            SliceLo(bbox[1], bbox[3], W),
                            <<SliceLen(bbox[2], bbox[4], H),
                              SliceLen(bbox[1], bbox[3], W),
                              a.shape[3]>>),
                    mem)

\* element (r, c, k) of a returned view
ViewPix(mem, v, r, c, k) == Pix(mem[v.id], v.y0 + r, v.x0 + c, k)

(***************************************************************************)
(* Annotation and drawing.                                                 *)
(***************************************************************************)
\* number of characters of the texts the callers of the model use
StrLen(s) ==
    CASE s = "happy"   -> 5
      [] s = "sad"     -> 3
      [] s = "neutral" -> 7
      [] s = "angry"   -> 5
      [] s = "Multiple faces detected!" -> 24
      [] OTHER -> 0

\* number of characters of str(n) + "%"
PercentLen(n) == (IF n < 10 THEN 1 ELSE IF n < 100 THEN 2 ELSE 3) + 1

\* draw.text((x, y), text, color, font=font)
Text(x, y, chars, color, size) ==
    [kind |-> "text", x |-> x, y |-> y, chars |-> chars, color |-> color, size |-> size]

annotate_warning_in_place(mem, text, image) ==
    IF image = None
    THEN Raise("AttributeError", mem)
    ELSE LET h == mem[image].shape[1]
             x == WarnX
             y == h - WarnYFromBottom
         IN  Return(RetArray(image),
                    [mem EXCEPT ![image].layers = @ \o
                        << Text(x + 1, y + 1, StrLen(text), <<0, 0, 0>>, WarningFontSize),
                           Text(x, y, StrLen(text), <<12, 52, 242>>, WarningFontSize),
                           Text(x, y + WarnSecondLine, SecondLineChars, <<255, 255, 255>>,
                                WarningFontSize) >>])

annotate_warning(mem, text, image) ==
    IF image = None
    THEN Raise("AttributeError", mem)
    ELSE LET h   == mem[image].shape[1]
             x   == WarnX
             y   == h - WarnYFromBottom
             pil == [mem[image] EXCEPT !.layers = @ \o
                        << Text(x + 1, y + 1, StrLen(text), <<0, 0, 0>>, WarningFontSize),
                           Text(x, y, StrLen(text), <<12, 52, 242>>, WarningFontSize),
                           Text(x, y + WarnSecondLine, SecondLineChars, <<255, 255, 255>>,
                                WarningFontSize) >>]
         IN  Return(RetArray(Len(mem) + 1), Append(mem, pil))

\* rows of the bar one row pitch too tall
Bar_too_tall(index, confidence) ==
    [kind |-> "rect",
     x1 |-> BarX, y1 |-> index * RowPitch + BarTop,
     x2 |-> BarX + confidence, y2 |-> (index + 1) * RowPitch + RowPitch,
     color |-> <<255, 0, 0>>]

\* cv2.rectangle(img, (100, index*20 + 20), (100 + confidence, (index+1)*20 + 18),
\*               (255, 0, 0), -1): a filled rectangle, both corners included
Bar(index, confidence) ==
    [kind |-> "rect",
     x1 |-> BarX, y1 |-> index * RowPitch + BarTop,
     x2 |-> BarX + confidence, y2 |-> (index + 1) * RowPitch + BarBottom,
     color |-> <<255, 0, 0>>]

Bars(data) == [i \in 1 .. Len(data) |-> Bar(i - 1, data[i].confidence)]

\* the two texts of entry index: its label, then its confidence
LabelText(index, e) ==
    Text(LabelX, index * RowPitch + BarTop, StrLen(e.label), <<7, 109, 16>>,
         AnnotationFontSize)
ConfidenceText(index, e) ==
    Text(ConfTextX + e.confidence, index * RowPitch + BarTop, PercentLen(e.confidence),
         <<255, 0, 0>>, AnnotationFontSize)

Texts(data) ==
    [j \in 1 .. 2 * Len(data) |->
        IF j % 2 = 1 THEN LabelText((j - 1) \div 2, data[(j + 1) \div 2])
        ELSE ConfidenceText((j - 1) \div 2, data[j \div 2])]

\* the bars drawn on the copy instead of on img
annotate_emotion_stats_on_copy(mem, data, image) ==
    IF image = None
    THEN Raise(IF data = << >> THEN "AttributeError" ELSE "cv2.error", mem)
    ELSE Return(RetArray(Len(mem) + 1),
                Append(mem, [mem[image] EXCEPT !.layers = @ \o Bars(data) \o Texts(data)]))

annotate_emotion_stats(mem, data, image) ==
    IF image = None
    THEN Raise(IF data = << >> THEN "AttributeError" ELSE "cv2.error", mem)
    ELSE LET drawn == [mem[image] EXCEPT !.layers = @ \o Bars(data)]
             pil   == [drawn EXCEPT !.layers = @ \o Texts(data)]
         IN  Return(RetArray(Len(mem) + 1), Append([mem EXCEPT ![image] = drawn], pil))

\* img[350:470, 10:130, c] = value, for a value whose axis has length v and a
\* target axis of length t: the value is broadcast to the target or it is an error
AssignOK_clipping(v, t) == v = t \/ v = 1 \/ v > t

AssignOK(v, t) == v = t \/ v = 1

\* the write of channel c: foreground + background over the h x w region at (y0, x0)
Overlay(e, y0, x0, h, w, c, down) ==
    [kind |-> "blend", ch |-> c, y0 |-> y0, x0 |-> x0, h |-> h, w |-> w,
     emoji |-> e, down |-> down]

\* the loop of draw_emoji from channel c on
RECURSIVE draw_emoji_from(_, _, _, _, _)
draw_emoji_from(mem, e, image, c, down) ==
    IF c = 3 THEN Return(RetArray(image), mem)
    ELSE IF e.shape[3] <= AlphaChannel THEN Raise("IndexError", mem)
    ELSE IF image = None THEN Raise("TypeError", mem)
    ELSE LET a  == mem[image]
             eh == e.shape[1]
             ew == e.shape[2]
             y0 == SliceLo(EmojiRowLo, EmojiRowHi, a.shape[1])
             x0 == SliceLo(EmojiColLo, EmojiColHi, a.shape[2])
             sh == SliceLen(EmojiRowLo, EmojiRowHi, a.shape[1])
             sw == SliceLen(EmojiColLo, EmojiColHi, a.shape[2])
             \* shape of background, then of foreground + background
             bh == BroadcastDim(sh, eh)
             bw == BroadcastDim(sw, ew)
             vh == BroadcastDim(eh, bh)
             vw == BroadcastDim(ew, bw)
         IN  IF c >= a.shape[3] THEN Raise("IndexError", mem)
             ELSE IF ~(BroadcastOK(sh, eh) /\ BroadcastOK(sw, ew)) THEN Raise("ValueError", mem)
             ELSE IF ~(AssignOK(vh, sh) /\ AssignOK(vw, sw)) THEN Raise("ValueError", mem)
             ELSE draw_emoji_from(
                      [mem EXCEPT ![image].layers = Append(@, Overlay(e, y0, x0, sh, sw, c, down))],
                      e, image, c + 1, down)

draw_emoji(mem, e, image, down) == draw_emoji_from(mem, e, image, 0, down)

(***************************************************************************)
(* The caller.                                                             *)
(***************************************************************************)
\* the buffers the caller still holds when it makes a call, and its image there
Live == IF img = None THEN << >> ELSE <<heap[img]>>
Arg == IF img = None THEN None ELSE 1

\* the caller makes a call and keeps the array it returns, if it returns one
Call(limit, op, argv, res) ==
    /\ calls < limit
    /\ calls' = calls + 1
    /\ pre' = Live
    /\ heap' = res.mem
    /\ img' = IF res.status = "ok" /\ res.ret.kind = "array" THEN res.ret.id ELSE Arg
    /\ outcome' = [op |-> op, status |-> res.status, error |-> res.error,
                   ret |-> res.ret, argv |-> argv, reads |-> res.reads]
    /\ UNCHANGED <<emoji, emotion_data, fpDown>>

NoCall ==
    [op |-> "", status |-> "", error |-> "", ret |-> RetNone, argv |-> << >>, reads |-> 0]

ConvertToRgb == Call(MaxCalls, "convert_to_rgb", << >>, convert_to_rgb(Live, Arg))

LoadImagePath ==
    \E p \in Paths, m \in Modes :
        Call(MaxCalls, "load_image_path", <<p, m>>, load_image_path(Live, p, m))

Coords == -1 .. MaxDim
Boxes == {<<x1, y1, x2, y2>> : x1 \in Coords, y1 \in Coords, x2 \in Coords, y2 \in Coords}

GetFacialROI ==
    \E b \in Boxes \cup {NoneBox} :
        Call(MaxCalls, "get_facial_ROI", b, get_facial_ROI(Live, Arg, b))

Emoji(h, w, seed, alpha) == Array(<<h, w, 4>>, seed, alpha)

SmallImages ==
    {Array(<<h, w, 3>>, 1, "opaque") : h \in {0, MaxDim}, w \in {0, 1, MaxDim}}

InitCaller(images) ==
    /\ \/ heap = << >> /\ img = None
       \/ \E a \in images : heap = <<a>> /\ img = 1
    /\ pre = heap
    /\ outcome = NoCall
    /\ calls = 0

Init ==
    /\ InitCaller(SmallImages)
    /\ emoji = Emoji(1, 1, 1, "opaque")
    /\ emotion_data = << >>
    /\ fpDown = FALSE

Next ==
    \/ ConvertToRgb
    \/ LoadImagePath
    \/ GetFacialROI

Spec == Init /\ [][Next]_vars

DrawEmoji == Call(MaxCalls, "draw_emoji", << >>, draw_emoji(Live, emoji, Arg, fpDown))

\* target images around the 470 x 130 the overlay needs
EmojiTargets ==
    {Array(<<hw[1], hw[2], 3>>, s, "opaque") :
        hw \in {<<EmojiRowHi, EmojiColHi>>, <<EmojiRowHi + MaxDim, EmojiColHi + MaxDim>>,
                <<EmojiRowHi - 1, EmojiColHi>>, <<EmojiRowHi, EmojiColHi - 1>>,
                <<EmojiRowLo + 1, EmojiColHi>>, <<EmojiRowHi, EmojiColLo + 1>>,
                <<EmojiRowLo, EmojiColHi>>, <<EmojiRowHi, EmojiColLo>>,
                <<EmojiRowLo + 1, EmojiColLo + 1>>, <<EmojiRowLo - MaxDim, EmojiColHi>>},
        s \in {1}}

Emojis ==
    {Emoji(n, n, s, alpha) :
        n \in {EmojiRowHi - EmojiRowLo, 1}, s \in 1 .. MaxSeed,
        alpha \in {"opaque", "clear", "half", "mixed"}}

InitEmoji ==
    /\ InitCaller(EmojiTargets)
    /\ emoji \in Emojis
    /\ emotion_data = << >>
    /\ fpDown \in BOOLEAN

NextEmoji == DrawEmoji

SpecEmoji == InitEmoji /\ [][NextEmoji]_vars

\* calls in a row on the annotation targets, whose every pixel is compared
AnnotCalls == MaxCalls - 1

WarningTexts == {"Multiple faces detected!", ""}

AnnotateWarning ==
    \E text \in WarningTexts :
        Call(AnnotCalls, "annotate_warning", <<text>>, annotate_warning(Live, text, Arg))

AnnotateEmotionStats ==
    Call(AnnotCalls, "annotate_emotion_stats", << >>,
         annotate_emotion_stats(Live, emotion_data, Arg))

\* the confidence the classifier of the model gives each label
Confidence(label) ==
    CASE label = "happy" -> 80
      [] label = "sad" -> 20
      [] OTHER -> 100

Labels == {"happy", "sad", "neutral"}

Entry(label) == [label |-> label, confidence |-> Confidence(label)]

\* the ordered mappings of at most n entries: no label twice
RECURSIVE EmotionData(_)
EmotionData(n) ==
    IF n = 0 THEN {<< >>}
    ELSE EmotionData(n - 1) \cup
         {Append(d, Entry(l)) : d \in {d \in EmotionData(n - 1) : Len(d) = n - 1},
                                l \in Labels}

NoLabelTwice(d) == \A i, j \in 1 .. Len(d) : i # j => d[i].label # d[j].label

AnnotTargets ==
    {Array(<<hw[1], hw[2], 3>>, 1, "opaque") : hw \in {<<60, 185>>, <<30, 120>>}}

InitAnnot ==
    /\ InitCaller(AnnotTargets)
    /\ emoji = Emoji(1, 1, 1, "opaque")
    /\ emotion_data \in {d \in EmotionData(MaxEntries) : NoLabelTwice(d)}
    /\ fpDown = FALSE

NextAnnot ==
    \/ AnnotateWarning
    \/ AnnotateEmotionStats

SpecAnnot == InitAnnot /\ [][NextAnnot]_vars

(***************************************************************************)
(* Properties.                                                             *)
(***************************************************************************)
\* the last call was op, made on a None image
OnNone == pre = << >>
\* the last call was made on an image without pixels
OnEmpty == pre # << >> /\ Size(pre[1]) = 0

RaisedOnly(error) ==
    /\ outcome.status = "raise"
    /\ outcome.error = error
    /\ outcome.ret = RetNone

\* C1: convert_to_rgb and get_facial_ROI both raise InvalidImage, and return
\* nothing, for every image that is None or has no pixels.
C1_NullOrEmptyRaisesInvalidImage ==
    (outcome.op \in {"convert_to_rgb", "get_facial_ROI"} /\ (OnNone \/ OnEmpty))
        => RaisedOnly("InvalidImage")

\* C2: get_facial_ROI raises InvalidImage whenever the image is None (also when
\* the bounding box is None too), raises ValueError and never InvalidImage when
\* the image is not None and the bounding box is None, and returns no slice in
\* either case.
C2_ROIErrorKinds ==
    outcome.op = "get_facial_ROI" =>
        /\ OnNone => RaisedOnly("InvalidImage")
        /\ (~OnNone /\ outcome.argv = NoneBox) => RaisedOnly("ValueError")

C2_Witness ==
    /\ outcome.op = "get_facial_ROI"
    /\ ~OnNone
    /\ outcome.argv = NoneBox
    /\ outcome.error = "ValueError"

\* the bounding box lies inside the image a and is not empty
BoxInside(b, a) ==
    /\ b # NoneBox
    /\ 0 <= b[1] /\ b[1] < b[3] /\ b[3] <= a.shape[2]
    /\ 0 <= b[2] /\ b[2] < b[4] /\ b[4] <= a.shape[1]

\* C3: for a bounding box [x1, y1, x2, y2] inside an image of shape (H, W, C),
\* get_facial_ROI returns an array of shape (y2-y1, x2-x1, C) whose element
\* (r, c, k) is image[y1+r, x1+c, k].
C3_ROISlice ==
    (outcome.op = "get_facial_ROI" /\ ~OnNone /\ BoxInside(outcome.argv, pre[1])) =>
        LET b == outcome.argv
            v == outcome.ret
        IN  /\ outcome.status = "ok"
            /\ v.kind = "view"
            /\ v.shape = <<b[4] - b[2], b[3] - b[1], pre[1].shape[3]>>
            /\ \A r \in 0 .. v.shape[1] - 1, c \in 0 .. v.shape[2] - 1, k \in 0 .. v.shape[3] - 1 :
                    ViewPix(heap, v, r, c, k) = Pix(pre[1], b[2] + r, b[1] + c, k)

C3_Witness ==
    /\ outcome.op = "get_facial_ROI"
    /\ ~OnNone
    /\ BoxInside(outcome.argv, pre[1])
    /\ outcome.argv[1] = 1
    /\ outcome.ret.shape = <<2, 1, 3>>

\* the conversion cv2.imread's result goes through in mode m
Loaded(a, m, r, c, k) == IF m = "rgb" THEN Pix(a, r, c, 2 - k) ELSE Pix(a, r, c, k)

\* C8: load_image_path reads the path once; when the read succeeds it returns
\* the image, converted by convert_to_rgb exactly when mode is "rgb"; when the
\* read or the decoding fails it raises, in every mode, the underlying error.
C8_LoadFailsWhenReadFails ==
    outcome.op = "load_image_path" =>
        LET p  == outcome.argv[1]
            m  == outcome.argv[2]
            rd == imread(p)
        IN  /\ outcome.reads = 1
            /\ rd.found =>
                    /\ outcome.status = "ok"
                    /\ outcome.ret.kind = "array"
                    /\ heap[outcome.ret.id].shape = Disk[p].shape
                    /\ \A r \in Rows(Disk[p]), c \in Cols(Disk[p]), k \in Chans(Disk[p]) :
                            Pix(heap[outcome.ret.id], r, c, k) = Loaded(Disk[p], m, r, c, k)
            /\ ~rd.found =>
                    /\ outcome.status = "raise"
                    /\ rd.raised => outcome.error = rd.error

\* C9: convert_to_rgb exchanges channels 0 and 2 of a valid 3-channel image and
\* keeps channel 1, and converting the result back gives the original pixels.
C9_ConvertRoundTrip ==
    (outcome.op = "convert_to_rgb" /\ ~OnNone /\ ~OnEmpty /\ pre[1].shape[3] = 3) =>
        /\ outcome.status = "ok"
        /\ outcome.ret.kind = "array"
        /\ LET a == pre[1]
               b == heap[outcome.ret.id]
           IN  /\ b.shape = a.shape
               /\ \A r \in Rows(a), c \in Cols(a) :
                      /\ Pix(b, r, c, 0) = Pix(a, r, c, 2)
                      /\ Pix(b, r, c, 1) = Pix(a, r, c, 1)
                      /\ Pix(b, r, c, 2) = Pix(a, r, c, 0)
               /\ SamePixels(cvtColor(b), a)

C9_Witness ==
    /\ outcome.op = "convert_to_rgb"
    /\ outcome.status = "ok"
    /\ \E r \in Rows(pre[1]), c \in Cols(pre[1]) : Pix(pre[1], r, c, 0) # Pix(pre[1], r, c, 2)
    /\ Len(pre[1].layers) = 1

\* the emoji is 120 x 120 with four channels
IsEmoji120(e) == e.shape = <<120, 120, 4>>

\* the alpha channel of the emoji is v everywhere
AlphaEverywhere(e, v) ==
    \A r \in Rows(e), c \in Cols(e) : BasePix(e, r, c, 3) = v

\* C4: on a target of at least 470 rows and 130 columns, draw_emoji with a
\* 120x120 4-channel emoji of alpha 255 everywhere leaves rows 350..469, columns
\* 10..129 of channels 0..2 equal to the emoji's channels 0..2; with alpha 0
\* everywhere it leaves that region as it was.
C4_OpaqueAndTransparentOverlay ==
    (/\ outcome.op = "draw_emoji"
     /\ ~OnNone
     /\ IsEmoji120(emoji)
     /\ pre[1].shape[1] >= 470
     /\ pre[1].shape[2] >= 130) =>
        /\ outcome.status = "ok"
        /\ outcome.ret = RetArray(1)
        /\ AlphaEverywhere(emoji, 255) =>
              \A r \in 350 .. 469, c \in 10 .. 129, k \in 0 .. 2 :
                  Pix(heap[1], r, c, k) = BasePix(emoji, r - 350, c - 10, k)
        /\ AlphaEverywhere(emoji, 0) =>
              \A r \in 350 .. 469, c \in 10 .. 129, k \in 0 .. 2 :
                  Pix(heap[1], r, c, k) = Pix(pre[1], r, c, k)

C4_Witness ==
    /\ outcome.op = "draw_emoji"
    /\ outcome.status = "ok"
    /\ IsEmoji120(emoji)
    /\ emoji.alpha = "opaque"
    /\ pre[1].shape = <<470, 130, 3>>
    /\ Pix(heap[1], 350, 10, 0) # Pix(pre[1], 350, 10, 0)

\* C5: on a target of fewer than 470 rows or fewer than 130 columns, draw_emoji
\* with a 120x120 4-channel emoji raises, and the target buffer is then exactly
\* as it was before the call: no channel has been written.
C5_SmallTargetFailsUnwritten ==
    (/\ outcome.op = "draw_emoji"
     /\ ~OnNone
     /\ IsEmoji120(emoji)
     /\ (pre[1].shape[1] < 470 \/ pre[1].shape[2] < 130)) =>
        /\ outcome.status = "raise"
        /\ heap = pre

C5_Witness ==
    /\ outcome.op = "draw_emoji"
    /\ IsEmoji120(emoji)
    /\ pre # << >>
    /\ pre[1].shape = <<351, 130, 3>>
    /\ outcome.error = "ValueError"

\* C6: annotate_warning leaves its input buffer exactly as it was and returns a
\* buffer that is not the input buffer.
C6_WarningKeepsInput ==
    (outcome.op = "annotate_warning" /\ ~OnNone) =>
        /\ outcome.status = "ok"
        /\ heap[1] = pre[1]
        /\ outcome.ret.kind = "array"
        /\ outcome.ret.id # 1

C6_Witness ==
    /\ outcome.op = "annotate_warning"
    /\ outcome.status = "ok"
    /\ outcome.argv # <<"">>
    /\ \E r \in Rows(pre[1]), c \in Cols(pre[1]) :
          Pix(heap[outcome.ret.id], r, c, 0) # Pix(pre[1], r, c, 0)

\* the last call was annotate_emotion_stats on an image, and it returned
StatsDone ==
    /\ outcome.op = "annotate_emotion_stats"
    /\ ~OnNone
    /\ outcome.status = "ok"

\* pixel (r, c) lies in the claimed bar of the entry at display index i
InClaimedBar(i, r, c) ==
    /\ 20 + 20 * i <= r /\ r <= 38 + 20 * i
    /\ 100 <= c /\ c <= 100 + emotion_data[i + 1].confidence

InSomeBar(r, c) == \E i \in 0 .. Len(emotion_data) - 1 : InClaimedBar(i, r, c)

\* what the last call appended to the writes of buffer a, which was b before
Appended(a, b) == SubSeq(a.layers, Len(b.layers) + 1, Len(a.layers))

\* C7: the entry at display index i with confidence c gets a filled bar covering
\* exactly x in [100, 100+c] and rows [20+20i, 38+20i]; its label is drawn at
\* x = 10, y = 20+20i; and the bars of two indices share no pixel row.
C7_BarGeometry ==
    (outcome.op = "annotate_emotion_stats" /\ ~OnNone) =>
        /\ outcome.status = "ok"
        /\ \A i \in 0 .. Len(emotion_data) - 1 :
              /\ \A r \in (20 + 20 * i) .. (38 + 20 * i), c \in Cols(pre[1]), k \in 0 .. 2 :
                    r \in Rows(pre[1]) =>
                        Pix(heap[1], r, c, k) =
                            IF InClaimedBar(i, r, c) THEN <<255, 0, 0>>[k + 1]
                            ELSE Pix(pre[1], r, c, k)
              /\ \E j \in 1 .. Len(heap[outcome.ret.id].layers) :
                    LET l == heap[outcome.ret.id].layers[j]
                    IN  /\ l.kind = "text"
                        /\ l.x = 10 /\ l.y = 20 + 20 * i
                        /\ l.chars = StrLen(emotion_data[i + 1].label)
        /\ LET bars == Appended(heap[1], pre[1])
           IN  /\ Len(bars) = Len(emotion_data)
               /\ \A i, j \in 1 .. Len(bars) :
                      i # j => (bars[i].y2 < bars[j].y1 \/ bars[j].y2 < bars[i].y1)

\* the scenario {happy: 80, sad: 20}
C7_Witness ==
    /\ StatsDone
    /\ emotion_data = <<Entry("happy"), Entry("sad")>>
    /\ pre[1].shape = <<60, 185, 3>>
    /\ \A k \in 0 .. 2 :
          /\ Pix(heap[1], 38, 180, k) = <<255, 0, 0>>[k + 1]
          /\ Pix(heap[1], 58, 120, k) = <<255, 0, 0>>[k + 1]
          /\ Pix(heap[1], 58, 121, k) = Pix(pre[1], 58, 121, k)

\* pixel (r, c) is inked by one of the texts the last call drew into buffer a
InSomeText(a, b, r, c) ==
    \E j \in Len(b.layers) + 1 .. Len(a.layers) :
        a.layers[j].kind = "text" /\ TextInk(a.layers[j], r, c)

\* C10: annotate_emotion_stats returns a new buffer but draws the bars into its
\* input buffer: afterwards the input differs from what it was only inside the
\* bars, where it holds the bar colour (no text is written to it), and the
\* returned buffer equals the input as it is now except at text pixels.
C10_BarsInPlaceTextOnCopy ==
    (outcome.op = "annotate_emotion_stats" /\ ~OnNone) =>
        /\ outcome.status = "ok"
        /\ outcome.ret.kind = "array"
        /\ outcome.ret.id # 1
        /\ heap[1].shape = pre[1].shape
        /\ heap[outcome.ret.id].shape = pre[1].shape
        /\ \A r \in Rows(pre[1]), c \in Cols(pre[1]) :
              /\ IF InSomeBar(r, c)
                 THEN \A k \in 0 .. 2 : Pix(heap[1], r, c, k) = <<255, 0, 0>>[k + 1]
                 ELSE \A k \in 0 .. 2 : Pix(heap[1], r, c, k) = Pix(pre[1], r, c, k)
              /\ ~InSomeText(heap[outcome.ret.id], heap[1], r, c) =>
                    \A k \in 0 .. 2 : Pix(heap[outcome.ret.id], r, c, k) = Pix(heap[1], r, c, k)

C10_Witness ==
    /\ StatsDone
    /\ Len(emotion_data) = 2
    /\ \E r \in Rows(pre[1]), c \in Cols(pre[1]) :
          /\ Pix(heap[1], r, c, 0) # Pix(pre[1], r, c, 0)
          /\ Pix(heap[outcome.ret.id], r, c, 0) = Pix(heap[1], r, c, 0)
    /\ \E r \in Rows(pre[1]), c \in Cols(pre[1]) :
          Pix(heap[outcome.ret.id], r, c, 1) # Pix(heap[1], r, c, 1)

====
